---------------------------- MODULE Spec2Model ----------------------------
(***************************************************************************)
(* The complete simplex tableau method (two-phase simplex on an explicit   *)
(* tableau), its selector, pivot operator, iterator and basic-variable     *)
(* locator.                                                                *)
(*                                                                         *)
(* Numbers: the program computes on IEEE doubles.  The model computes on   *)
(* exact rationals <<num, den>> (den > 0, lowest terms); the tolerance     *)
(* tests of the program (machine epsilon 2^-52 and its square root 2^-26)  *)
(* are evaluated exactly on these rationals.  Rounding of the floating     *)
(* point operations themselves is not modelled.  The values that are not   *)
(* finite have denominator 0: np.inf is <<1, 0>>, -np.inf is <<-1, 0>> and *)
(* np.nan is <<0, 0>>; the operations on them are those of IEEE 754.       *)
(*                                                                         *)
(* Indices are 0-based as in the source: a vector of length k is a         *)
(* function on 0..k-1, a 2D array is a record [mtab, ntab, a] holding its  *)
(* shape and a function on 0..mtab-1 of rows.                              *)
(*                                                                         *)
(* Specifications: Spec, the runs of simplex on every problem of the       *)
(* bounded grid and on the examples of the notebook; SpecTol, the same     *)
(* with problems whose right-hand sides differ by less than the tolerance  *)
(* of the infeasibility test; SpecCalls, the same as Spec with direct      *)
(* calls of pivoting.                                                      *)
(***************************************************************************)
EXTENDS Integers, Sequences, FiniteSets, TLC

(***************************************************************************)
(* Bounds of the model.                                                    *)
(***************************************************************************)
\* problems (A, b, c) of every shape m x n with m + n <= MaxDim and
\* m * n <= MaxCells
MaxDim == 4
MaxCells == 4
\* a run of the iterator is cut after MaxPivots pivots (the code has no cap)
MaxPivots == 8

(***************************************************************************)
(* Program constants.                                                      *)
(***************************************************************************)
\* Python's None (row index of a variable that is not basic, pivot of a
\* terminal selector call)
None == -1
\* 1 / np.sqrt(np.finfo(float).eps) = 2^26; np.finfo(float).eps = 2^-52
SqrtEpsInv == 67108864

(***************************************************************************)
(* Exact rational arithmetic standing for the float operations.            *)
(***************************************************************************)
Abs(x) == IF x < 0 THEN -x ELSE x

RECURSIVE GCD(_, _)
GCD(x, y) == IF y = 0 THEN x ELSE GCD(y, x % y)

Norm(num, den) ==
    LET g == GCD(Abs(num), den) IN <<num \div g, den \div g>>

R(k) == <<k, 1>>
Zero == <<0, 1>>
One == <<1, 1>>
\* np.inf, the step of a row that does not limit the entering variable
Inf == <<1, 0>>
MinusInf == <<-1, 0>>
NaN == <<0, 0>>

IsFinite(x) == x[2] # 0

RNeg(x) == <<-x[1], x[2]>>

\* inf + (-inf) and every sum with nan are nan
RAdd(x, y) ==
    IF x[2] = 1 /\ y[2] = 1 THEN <<x[1] + y[1], 1>>
    ELSE IF x[2] = 0 \/ y[2] = 0
    THEN (IF x = NaN \/ y = NaN THEN NaN
          ELSE IF x[2] = 0 /\ y[2] = 0 THEN (IF x = y THEN x ELSE NaN)
          ELSE IF x[2] = 0 THEN x ELSE y)
    ELSE LET g == GCD(x[2], y[2])
             l == (x[2] \div g) * y[2]
         IN  Norm(x[1] * (l \div x[2]) + y[1] * (l \div y[2]), l)

RSub(x, y) == RAdd(x, RNeg(y))

\* 0 * inf and every product with nan are nan
RMul(x, y) ==
    IF x[2] = 0 \/ y[2] = 0
    THEN (IF x[1] = 0 \/ y[1] = 0 THEN NaN
          ELSE IF (x[1] > 0) = (y[1] > 0) THEN Inf ELSE MinusInf)
    ELSE IF x[1] = 0 \/ y[1] = 0 THEN <<0, 1>>
    ELSE IF x[2] = 1 /\ y[2] = 1 THEN <<x[1] * y[1], 1>>
    ELSE LET g1 == GCD(Abs(x[1]), y[2])
             g2 == GCD(Abs(y[1]), x[2])
         IN  <<(x[1] \div g1) * (y[1] \div g2), (x[2] \div g2) * (y[2] \div g1)>>

\* x / y: x / inf is 0 for a finite x, x / 0 is inf, -inf or nan
RDiv(x, y) ==
    RMul(x, IF y[1] > 0 THEN <<y[2], y[1]>>
            ELSE IF y[1] < 0 THEN <<-y[2], -y[1]>>
            ELSE IF y[2] = 0 THEN NaN ELSE Inf)

\* a comparison with nan is False
RLt(x, y) == RSub(x, y)[1] < 0
RLe(x, y) ==
    LET d == RSub(x, y)
    IN  IF d[2] = 0 THEN (x = y /\ x # NaN) \/ d[1] < 0 ELSE d[1] <= 0
IsNeg(x) == x[1] < 0
IsPos(x) == x[1] > 0

\* comparison of two steps, either of which may be np.inf
StepLt(x, y) ==
    IF x = Inf THEN FALSE ELSE IF y = Inf THEN TRUE ELSE RLt(x, y)

\* np.abs(x) < np.finfo(float).eps, i.e. |num| * 2^52 < den
AbsLtEps(x) == Abs(x[1]) <= ((x[2] - 1) \div SqrtEpsInv) \div SqrtEpsInv
\* np.abs(x) > np.finfo(float).eps
AbsGtEps(x) == Abs(x[1]) > (x[2] \div SqrtEpsInv) \div SqrtEpsInv
\* np.abs(x) > np.sqrt(np.finfo(float).eps), i.e. |num| * 2^26 > den
AbsGtSqrtEps(x) == Abs(x[1]) > x[2] \div SqrtEpsInv
\* x < -np.sqrt(np.finfo(float).eps)
LtMinusSqrtEps(x) == -x[1] > x[2] \div SqrtEpsInv

RECURSIVE SumTo(_, _)
\* f[0] + ... + f[k-1]
SumTo(f, k) == IF k = 0 THEN Zero ELSE RAdd(SumTo(f, k - 1), f[k - 1])

SetMin(S) == CHOOSE x \in S : \A y \in S : x <= y
SetMax(S) == CHOOSE x \in S : \A y \in S : y <= x

\* Gauss-Jordan elimination of the columns 0..k-1 of the nr x (k+1) system
\* G from column j on; ok iff the columns are independent and the system
\* has a solution, which is then column k of rows 0..k-1.
RECURSIVE Eliminate(_, _, _, _)
Eliminate(G, nr, k, j) ==
    IF j = k THEN [ok |-> \A i \in j..(nr - 1) : G[i][k] = Zero, G |-> G]
    ELSE LET cand == {i \in j..(nr - 1) : G[i][j] # Zero}
         IN  IF cand = {} THEN [ok |-> FALSE, G |-> G]
             ELSE LET i0 == SetMin(cand)
                      W == [G EXCEPT ![j] = G[i0], ![i0] = G[j]]
                      rowj == IF W[j][j] = One THEN W[j]
                              ELSE [t \in 0..k |-> RDiv(W[j][t], W[j][j])]
                      G2 == [i \in 0..(nr - 1) |->
                                IF i = j THEN rowj
                                ELSE IF W[i][j] = Zero THEN W[i]
                                ELSE [t \in 0..k |->
                                        RSub(W[i][t], RMul(W[i][j], rowj[t]))]]
                  \* (the test makes TLC tabulate G2 once)
                  IN  IF G2 = G2 THEN Eliminate(G2, nr, k, j + 1)
                      ELSE [ok |-> FALSE, G |-> G]

(***************************************************************************)
(* Arrays.                                                                 *)
(***************************************************************************)
Len0(v) == Cardinality(DOMAIN v)

Array2D(mtab, ntab, rows) == [mtab |-> mtab, ntab |-> ntab, a |-> rows]

\* tableau[-1], the last row
LastRow(tableau) == tableau.a[tableau.mtab - 1]

\* np.delete(tableau, rows, 0): the rows whose index is in the set are
\* dropped, the others keep their order
RECURSIVE KeptRows(_, _, _)
KeptRows(mtab, drop, i) ==
    IF i = mtab THEN <<>>
    ELSE IF i \in drop THEN KeptRows(mtab, drop, i + 1)
    ELSE <<i>> \o KeptRows(mtab, drop, i + 1)

DeleteRows(tableau, drop) ==
    LET kept == KeptRows(tableau.mtab, drop, 0)
    IN  Array2D(Len(kept), tableau.ntab,
                [i \in 0..(Len(kept) - 1) |-> tableau.a[kept[i + 1]]])

\* np.delete(tableau, range(lo, hi), 1)
DeleteCols(tableau, lo, hi) ==
    LET w == hi - lo
    IN  Array2D(tableau.mtab, tableau.ntab - w,
                [i \in 0..(tableau.mtab - 1) |->
                    [j \in 0..(tableau.ntab - w - 1) |->
                        IF j < lo THEN tableau.a[i][j] ELSE tableau.a[i][j + w]]])


(***************************************************************************)
(* simplexTableau: one selection of the entering column and leaving row.   *)
(***************************************************************************)
\* variant: steps[k] = xb[k] / minusd[k] if minusd[k] != 0 else np.inf
StepsNonZero(tableau, p) ==
    [k \in 0..(tableau.mtab - 2) |->
        IF tableau.a[k][p][1] # 0
        THEN RDiv(tableau.a[k][tableau.ntab - 1], tableau.a[k][p])
        ELSE Inf]

\* steps[k] = xb[k] / minusd[k] if minusd[k] > 0 else np.inf
Steps(tableau, p) ==
    [k \in 0..(tableau.mtab - 2) |->
        IF IsPos(tableau.a[k][p])
        THEN RDiv(tableau.a[k][tableau.ntab - 1], tableau.a[k][p])
        ELSE Inf]

\* np.argmin of a non-empty array: the first index attaining the minimum,
\* the first nan when there is one
ArgMin(steps) ==
    IF \E k \in DOMAIN steps : steps[k] = NaN
    THEN SetMin({k \in DOMAIN steps : steps[k] = NaN})
    ELSE SetMin({k \in DOMAIN steps :
                    \A j \in DOMAIN steps : ~StepLt(steps[j], steps[k])})

\* variant: the right-hand side is scanned too (tableau[-1, :])
everyColumn(tableau) == 0..(tableau.ntab - 1)

\* the columns scanned for a negative reduced cost: tableau[-1, :-1]
reducedCostColumns(tableau) == 0..(tableau.ntab - 2)

\* variant: the last True entry
enteringColumnLast(negativeReducedCost) == SetMax(negativeReducedCost)

\* np.argmax of the boolean array negativeReducedCost: the first True entry
enteringColumn(negativeReducedCost) == SetMin(negativeReducedCost)

\* Returns [raised, p, q, opt, bounded]; raised is the ValueError of
\* np.argmin on an empty array (a tableau with no constraint row).
simplexTableau(tableau) ==
    LET negativeReducedCost ==
            {k \in reducedCostColumns(tableau) : IsNeg(LastRow(tableau)[k])}
    IN  IF negativeReducedCost = {}
        THEN [raised |-> FALSE, p |-> None, q |-> None, opt |-> TRUE, bounded |-> TRUE]
        ELSE LET p == enteringColumn(negativeReducedCost)
                 steps == Steps(tableau, p)
             IN  IF tableau.mtab - 1 = 0
                 THEN [raised |-> TRUE, p |-> None, q |-> None,
                       opt |-> FALSE, bounded |-> FALSE]
                 ELSE LET q == ArgMin(steps)
                      IN  IF steps[q] = Inf
                          THEN [raised |-> FALSE, p |-> None, q |-> None,
                                opt |-> FALSE, bounded |-> FALSE]
                          ELSE [raised |-> FALSE, p |-> p, q |-> q,
                                opt |-> FALSE, bounded |-> TRUE]

(***************************************************************************)
(* pivoting: Gauss-Jordan elimination around tableau[q][p].                *)
(***************************************************************************)
\* variant: the row of the pivot is not divided by the pivot
pivotedRowsUnscaled(tableau, p, q) ==
    [i \in 0..(tableau.mtab - 1) |->
        [j \in 0..(tableau.ntab - 1) |->
            IF i = q THEN tableau.a[q][j]
            ELSE RSub(tableau.a[i][j],
                      RDiv(RMul(tableau.a[i][p], tableau.a[q][j]), tableau.a[q][p]))]]

\* variant: the last row is left as it is
pivotedRowsAboveLast(tableau, p, q) ==
    [i \in 0..(tableau.mtab - 1) |->
        [j \in 0..(tableau.ntab - 1) |->
            IF i = q THEN RDiv(tableau.a[q][j], tableau.a[q][p])
            ELSE IF i = tableau.mtab - 1 THEN tableau.a[i][j]
            ELSE RSub(tableau.a[i][j],
                      RDiv(RMul(tableau.a[i][p], tableau.a[q][j]), tableau.a[q][p]))]]

\* variant: the other rows are reduced by tableau[i][p] * thepivotrow, not
\* divided by the pivot
pivotedRowsUndivided(tableau, p, q) ==
    [i \in 0..(tableau.mtab - 1) |->
        [j \in 0..(tableau.ntab - 1) |->
            IF i = q THEN RDiv(tableau.a[q][j], tableau.a[q][p])
            ELSE RSub(tableau.a[i][j], RMul(tableau.a[i][p], tableau.a[q][j]))]]

\* newtableau[q, :] = tableau[q, :] / thepivot
\* newtableau[i, :] = tableau[i, :] - tableau[i][p] * thepivotrow / thepivot
pivotedRows(tableau, p, q) ==
    LET thepivot == tableau.a[q][p]
        thepivotrow == tableau.a[q]
    IN  [i \in 0..(tableau.mtab - 1) |->
            [j \in 0..(tableau.ntab - 1) |->
                IF i = q
                THEN RDiv(tableau.a[q][j], thepivot)
                ELSE RSub(tableau.a[i][j],
                          RDiv(RMul(tableau.a[i][p], thepivotrow[j]), thepivot))]]

\* variant: the test without np.abs (not thepivot > eps)
pivotRejectedSigned(thepivot) == IsNeg(thepivot) \/ ~AbsGtEps(thepivot)

\* the test that rejects a pivot entry: np.abs(thepivot) < eps
pivotRejected(thepivot) == AbsLtEps(thepivot)

\* variant: the rows are written into the array passed in, which is returned
pivotingInPlace(tableau, p, q) ==
    IF q >= tableau.mtab \/ p >= tableau.ntab
    THEN [raised |-> TRUE, tableau |-> tableau, newtableau |-> tableau]
    ELSE IF pivotRejected(tableau.a[q][p])
    THEN [raised |-> TRUE, tableau |-> tableau, newtableau |-> tableau]
    ELSE LET written == Array2D(tableau.mtab, tableau.ntab, pivotedRows(tableau, p, q))
         IN  [raised |-> FALSE, tableau |-> written, newtableau |-> written]

\* Returns [raised, tableau, newtableau]: whether the call raised, the array
\* passed in as it is after the call, and the array returned (a new array
\* from np.empty; the array passed in when the call raised, as a filler).
pivoting(tableau, p, q) ==
    IF q >= tableau.mtab \/ p >= tableau.ntab
    THEN [raised |-> TRUE, tableau |-> tableau, newtableau |-> tableau]
    ELSE IF pivotRejected(tableau.a[q][p])
    THEN [raised |-> TRUE, tableau |-> tableau, newtableau |-> tableau]
    ELSE [raised |-> FALSE, tableau |-> tableau,
          newtableau |-> Array2D(tableau.mtab, tableau.ntab,
                                 pivotedRows(tableau, p, q))]

(***************************************************************************)
(* getRow: the row in which a variable is basic, or None.                  *)
(***************************************************************************)
RECURSIVE getRowLoopAboveLast(_, _, _, _)
\* variant: the loop is over range(m), the last row is not looked at
getRowLoopAboveLast(column, mtab, j, rowIndex) ==
    IF j >= mtab - 1 THEN rowIndex
    ELSE IF AbsGtSqrtEps(column[j])
         THEN IF rowIndex = None /\ ~AbsGtEps(RSub(column[j], One))
              THEN getRowLoopAboveLast(column, mtab, j + 1, j)
              ELSE None
         ELSE getRowLoopAboveLast(column, mtab, j + 1, rowIndex)

RECURSIVE getRowLoop(_, _, _, _)
getRowLoop(column, mtab, j, rowIndex) ==
    IF j = mtab THEN rowIndex
    ELSE IF AbsGtSqrtEps(column[j])
         THEN IF rowIndex = None /\ ~AbsGtEps(RSub(column[j], One))
              THEN getRowLoop(column, mtab, j + 1, j)
              ELSE None
         ELSE getRowLoop(column, mtab, j + 1, rowIndex)

\* the caller passes an index in range(n), so the exception is not modelled
getRow(tableau, index) ==
    getRowLoop([j \in 0..(tableau.mtab - 1) |-> tableau.a[j][index]],
               tableau.mtab, 0, None)

(***************************************************************************)
(* simplex(A, b, c): the two-phase driver.  Its state is held in a record  *)
(* (one field per local of the function, plus the arrays A, b, c of the    *)
(* caller, which the function receives by reference):                      *)
(*   pc               "start", "phase1" (in the iterator on the auxiliary  *)
(*                    problem), "clean" (in the loop removing auxiliary    *)
(*                    variables), "phase2" (in the iterator on the         *)
(*                    problem), "done"                                     *)
(*   tableau          the first tableau of the auxiliary problem           *)
(*   aliased          phaseOneTableau is still the array named tableau     *)
(*   phaseOneTableau  the tableau of the iterator, then of the clean-up    *)
(*   phaseTwoTableau  startPhaseTwo, then the tableau of the iterator      *)
(*   pivots           pivots made by the running iterator                  *)
(*   turns            turns of the clean-up loop that found an auxiliary   *)
(*                    variable to remove                                   *)
(*   call             the last call of pivoting: its place, arguments and  *)
(*                    what it returned                                     *)
(*   result           what simplex returned or raised                      *)
(* and, for the simplex(A, b, c, basis) that works on a basis:             *)
(*   basis            the list passed in, which the function updates       *)
(*   optimalbasis     the basis returned                                   *)
(*   iters            the list of the iterations made                      *)
(* and, for newtonLocal(fct, x0, eps, maxiter):                            *)
(*   newton           its parameters and its locals k, x, g, H             *)
(***************************************************************************)
NoArray == Array2D(0, 0, <<>>)
NoCall == [where |-> "none", arg |-> NoArray, p |-> None, q |-> None,
           raised |-> FALSE, tableau |-> NoArray, newtableau |-> NoArray]
Running == [kind |-> "running", tableau |-> NoArray,
            unbounded |-> FALSE, infeasible |-> FALSE]
Raised(what) == [kind |-> what, tableau |-> NoArray,
                 unbounded |-> FALSE, infeasible |-> FALSE]
Returned(tableau, unbounded, infeasible) ==
    [kind |-> "returned", tableau |-> tableau,
     unbounded |-> unbounded, infeasible |-> infeasible]

\* no call of newtonLocal
NoNewton == [fct |-> "none"]

\* the state at the call simplex(A, b, c)
Entry(A, b, c) ==
    [pc |-> "start", A |-> A, b |-> b, c |-> c, A0 |-> A, b0 |-> b, c0 |-> c,
     m |-> 0, n |-> 0, tableau |-> NoArray, aliased |-> FALSE,
     phaseOneTableau |-> NoArray, basicRows |-> <<>>, rowsToRemove |-> <<>>,
     phaseTwoTableau |-> NoArray, pivots |-> 0, turns |-> 0, call |-> NoCall,
     result |-> Running, basis |-> <<>>, basis0 |-> <<>>,
     optimalbasis |-> <<>>, iters |-> <<>>, newton |-> NoNewton]

Call(where, arg, p, q, r) ==
    [where |-> where, arg |-> arg, p |-> p, q |-> q, raised |-> r.raised,
     tableau |-> r.tableau, newtableau |-> r.newtableau]

\* the rows of A and entries of b after the loop over np.argwhere(b < 0)
normalizedA(A, b) ==
    Array2D(A.mtab, A.ntab,
            [i \in 0..(A.mtab - 1) |->
                IF IsNeg(b[i]) THEN [j \in 0..(A.ntab - 1) |-> RNeg(A.a[i][j])]
                ELSE A.a[i]])

\* variant: b is left as it was given
normalizedbAsGiven(b) == b

normalizedb(b) == [i \in DOMAIN b |-> IF IsNeg(b[i]) THEN RNeg(b[i]) ELSE b[i]]

\* the first tableau of the auxiliary problem
firstTableau(A, b, m, n) ==
    Array2D(m + 1, n + m + 1,
        [i \in 0..m |->
            [j \in 0..(n + m) |->
                IF i < m
                THEN IF j < n THEN A.a[i][j]
                     ELSE IF j < n + m THEN (IF j - n = i THEN One ELSE Zero)
                     ELSE b[i]
                ELSE IF j < n THEN RNeg(SumTo([k \in 0..(m - 1) |-> A.a[k][j]], m))
                     ELSE IF j < n + m THEN Zero
                     ELSE RNeg(SumTo(b, m))]])

\* variant: the change of sign is made before the checks of the sizes
startStepSignFirst(s) ==
    LET m == s.A.mtab
        n == s.A.ntab
        A == normalizedA(s.A, s.b)
        b == normalizedb(s.b)
        t == firstTableau(A, b, m, n)
    IN  IF Len0(s.b) # m \/ Len0(s.c) # n
        THEN [s EXCEPT !.pc = "done", !.m = m, !.n = n, !.A = A, !.b = b,
                       !.result = Raised("Incompatible sizes")]
        ELSE [s EXCEPT !.pc = "phase1", !.m = m, !.n = n, !.A = A, !.b = b,
                       !.tableau = t, !.aliased = TRUE, !.phaseOneTableau = t]

\* lines 255-276: the checks of the sizes, the change of sign, the tableau
startStep(s) ==
    LET m == s.A.mtab
        n == s.A.ntab
        A == normalizedA(s.A, s.b)
        b == normalizedb(s.b)
        t == firstTableau(A, b, m, n)
    IN  IF Len0(s.b) # m \/ Len0(s.c) # n
        THEN [s EXCEPT !.pc = "done", !.m = m, !.n = n,
                       !.result = Raised("Incompatible sizes")]
        ELSE [s EXCEPT !.pc = "phase1", !.m = m, !.n = n, !.A = A, !.b = b,
                       !.tableau = t, !.aliased = TRUE, !.phaseOneTableau = t]

\* basicRows = np.array([getRow(tableau, k) for k in range(count)])
basicRowsOf(tableau, count) == [k \in 0..(count - 1) |-> getRow(tableau, k)]

\* variant: the test without its tolerance (phaseOneTableau[-1, -1] < 0)
infeasibleTestExact(phaseOneTableau) ==
    IsNeg(LastRow(phaseOneTableau)[phaseOneTableau.ntab - 1])

\* variant: the test on the objective value (-phaseOneTableau[-1, -1] below
\* -sqrt(eps))
infeasibleTestOnValue(phaseOneTableau) ==
    LtMinusSqrtEps(RNeg(LastRow(phaseOneTableau)[phaseOneTableau.ntab - 1]))

\* the test of line 285 on the terminal tableau of the auxiliary problem
infeasibleTest(phaseOneTableau) ==
    LtMinusSqrtEps(LastRow(phaseOneTableau)[phaseOneTableau.ntab - 1])

\* One turn of the loop of simplexAlgorithmTableau on the auxiliary problem,
\* and, when the loop returns, lines 281-293 of simplex.
phaseOneStep(s) ==
    LET t == s.phaseOneTableau
        sel == simplexTableau(t)
        r == pivoting(t, sel.p, sel.q)
    IN  IF sel.raised
        THEN [s EXCEPT !.pc = "done", !.result = Raised("ValueError")]
        ELSE IF sel.opt
        THEN IF infeasibleTest(t)
             THEN [s EXCEPT !.pc = "done", !.result = Returned(t, FALSE, TRUE)]
             ELSE [s EXCEPT !.pc = "clean", !.rowsToRemove = <<>>,
                            !.basicRows = basicRowsOf(t, s.m + s.n)]
        ELSE IF ~sel.bounded
        THEN [s EXCEPT !.pc = "done", !.result = Returned(s.tableau, TRUE, FALSE)]
        ELSE IF r.raised
        THEN [s EXCEPT !.pc = "done", !.call = Call("phase1", t, sel.p, sel.q, r),
                       !.tableau = IF s.aliased THEN r.tableau ELSE @,
                       !.result = Raised("The pivot is too close to zero")]
        ELSE [s EXCEPT !.phaseOneTableau = r.newtableau, !.aliased = FALSE,
                       !.tableau = IF s.aliased THEN r.tableau ELSE @,
                       !.call = Call("phase1", t, sel.p, sel.q, r),
                       !.pivots = @ + 1]

\* lines 320-332: the columns of the auxiliary variables are deleted and the
\* last row is calculated from c
lastRowPhaseTwo(startPhaseTwo, basicRows, c, n) ==
    LET basicIndices == {j \in 0..(n - 1) : basicRows[j] # None}
        old == LastRow(startPhaseTwo)
        sumOver(k) ==
            LET F[S \in SUBSET basicIndices] ==
                    IF S = {} THEN Zero
                    ELSE LET j == SetMin(S)
                         IN  RAdd(RMul(c[j], startPhaseTwo.a[basicRows[j]][k]),
                                  F[S \ {j}])
            IN  F[basicIndices]
    IN  [k \in 0..n |->
            IF k = n THEN RNeg(sumOver(n))
            ELSE IF k \in basicIndices THEN old[k]
            ELSE RSub(c[k], sumOver(k))]

phaseTwoStart(s) ==
    LET startPhaseTwo == DeleteCols(s.phaseOneTableau, s.n, s.n + s.m)
        m == s.m - Len(s.rowsToRemove)
        basicRows == basicRowsOf(startPhaseTwo, s.n)
        last == lastRowPhaseTwo(startPhaseTwo, basicRows, s.c, s.n)
    IN  IF startPhaseTwo.mtab = 0
        THEN [s EXCEPT !.pc = "done", !.m = m, !.basicRows = basicRows,
                       !.phaseTwoTableau = startPhaseTwo,
                       !.result = Raised("IndexError")]
        ELSE [s EXCEPT !.pc = "phase2", !.m = m, !.basicRows = basicRows,
                       !.pivots = 0,
                       !.phaseTwoTableau =
                           [startPhaseTwo EXCEPT !.a[startPhaseTwo.mtab - 1] = last]]

\* the columns an auxiliary variable can be replaced by: the variables of the
\* problem that are not basic and have a non zero entry in its row
pivotCandidates(s, rowpivotIndex) ==
    LET basicIndices == {k \in DOMAIN s.basicRows : s.basicRows[k] # None}
        originalNonbasic == (0..(s.n - 1)) \ basicIndices
    IN  {k \in originalNonbasic : AbsGtEps(s.phaseOneTableau.a[rowpivotIndex][k])}

\* np.delete(phaseOneTableau, rowsToRemove, 0)
removedRows(phaseOneTableau, rowsToRemove) ==
    DeleteRows(phaseOneTableau, {rowsToRemove[i] : i \in DOMAIN rowsToRemove})

\* One turn of the loop "while not clean" (lines 295-318) and, when it ends,
\* lines 320-332.  The successors are a set: tobeCleaned.pop() takes an
\* arbitrary element of a set, list(set(...)) lists a set in an arbitrary
\* order, and np.delete either ignores an index that is out of bounds
\* (numpy before 1.19) or raises IndexError.
cleanStep(s) ==
    LET t == s.phaseOneTableau
        basicIndices == {k \in DOMAIN s.basicRows : s.basicRows[k] # None}
        tobeCleaned == basicIndices \cap (s.n..(s.n + s.m - 1))
        pivotOut(auxiliaryColumn, colpivot) ==
            LET rowpivotIndex == s.basicRows[auxiliaryColumn]
                r == pivoting(t, colpivot, rowpivotIndex)
            IN  IF r.raised
                THEN [s EXCEPT !.pc = "done", !.turns = @ + 1,
                               !.call = Call("clean", t, colpivot, rowpivotIndex, r),
                               !.tableau = IF s.aliased THEN r.tableau ELSE @,
                               !.result = Raised("The pivot is too close to zero")]
                ELSE [s EXCEPT !.phaseOneTableau = r.newtableau, !.aliased = FALSE,
                               !.turns = @ + 1,
                               !.tableau = IF s.aliased THEN r.tableau ELSE @,
                               !.call = Call("clean", t, colpivot, rowpivotIndex, r),
                               !.basicRows = [@ EXCEPT ![colpivot] = rowpivotIndex,
                                                       ![auxiliaryColumn] = None]]
        remove(auxiliaryColumn) ==
            LET rowsToRemove == Append(s.rowsToRemove, s.basicRows[auxiliaryColumn])
                reduced == removedRows(t, rowsToRemove)
                deleted == [s EXCEPT !.rowsToRemove = rowsToRemove, !.turns = @ + 1,
                                     !.phaseOneTableau = reduced, !.aliased = FALSE,
                                     !.basicRows = basicRowsOf(reduced, s.m + s.n)]
                failed == [s EXCEPT !.pc = "done", !.rowsToRemove = rowsToRemove,
                                    !.turns = @ + 1,
                                    !.result = Raised("IndexError")]
            IN  IF \E i \in DOMAIN rowsToRemove : rowsToRemove[i] >= t.mtab
                THEN {deleted, failed}
                ELSE {deleted}
    IN  IF tobeCleaned = {}
        THEN {phaseTwoStart(s)}
        ELSE UNION {
                LET candidates == pivotCandidates(s, s.basicRows[auxiliaryColumn])
                IN  IF candidates # {}
                    THEN {pivotOut(auxiliaryColumn, colpivot) : colpivot \in candidates}
                    ELSE remove(auxiliaryColumn)
                : auxiliaryColumn \in tobeCleaned}

\* One turn of the loop of simplexAlgorithmTableau on the problem, and, when
\* the loop returns, line 337 of simplex.
phaseTwoStep(s) ==
    LET t == s.phaseTwoTableau
        sel == simplexTableau(t)
        r == pivoting(t, sel.p, sel.q)
    IN  IF sel.raised
        THEN [s EXCEPT !.pc = "done", !.result = Raised("ValueError")]
        ELSE IF sel.opt
        THEN [s EXCEPT !.pc = "done", !.result = Returned(t, FALSE, FALSE)]
        ELSE IF ~sel.bounded
        THEN [s EXCEPT !.pc = "done", !.result = Returned(t, TRUE, FALSE)]
        ELSE IF r.raised
        THEN [s EXCEPT !.pc = "done", !.call = Call("phase2", t, sel.p, sel.q, r),
                       !.result = Raised("The pivot is too close to zero")]
        ELSE [s EXCEPT !.phaseTwoTableau = r.newtableau,
                       !.call = Call("phase2", t, sel.p, sel.q, r),
                       !.pivots = @ + 1]

\* the states one step of simplex leads to
Successors(s) ==
    CASE s.pc = "start" -> {startStep(s)}
      [] s.pc = "phase1" -> IF s.pivots < MaxPivots THEN {phaseOneStep(s)} ELSE {}
      [] s.pc = "clean" -> cleanStep(s)
      [] s.pc = "phase2" -> IF s.pivots < MaxPivots THEN {phaseTwoStep(s)} ELSE {}
      [] OTHER -> {}

(***************************************************************************)
(* simplex(A, b, c, basis): the simplex algorithm on a basis (Algorithm    *)
(* 16.2), which solves the systems of the basis at every iteration instead *)
(* of keeping a tableau.  The list basis is the caller's: the function     *)
(* updates it in place.                                                    *)
(***************************************************************************)
\* np.linalg.solve(B, v) for B of shape rows x cols: LinAlgError (ok is
\* FALSE) when B is not square or is singular
linalgSolve(B, v, rows, cols) ==
    IF rows # cols THEN [ok |-> FALSE, x |-> <<>>]
    ELSE LET G == [i \in 0..(rows - 1) |->
                      [t \in 0..cols |-> IF t < cols THEN B[i][t] ELSE v[i]]]
             e == Eliminate(G, rows, cols, 0)
         IN  [ok |-> e.ok, x |-> [i \in 0..(rows - 1) |-> e.G[i][cols]]]

\* the state at the call simplex(A, b, c, basis)
EntryBasis(A, b, c, basis) ==
    [Entry(A, b, c) EXCEPT !.pc = "basis start", !.basis = basis, !.basis0 = basis]

\* lines 68-77: the checks of the sizes
basisStart(s) ==
    LET m == s.A.mtab
        n == s.A.ntab
    IN  IF Len0(s.b) # m \/ Len0(s.c) # n
        THEN [s EXCEPT !.pc = "done", !.m = m, !.n = n,
                       !.result = Raised("Incompatible sizes")]
        ELSE [s EXCEPT !.pc = "basis", !.m = m, !.n = n]

\* lines 79-120: one turn of the loop "while not stop" and, when it stops,
\* the return
basisStep(s) ==
    LET m == s.m
        n == s.n
        k == Len0(s.basis)
        \* B = A[:, basis]
        B == [i \in 0..(m - 1) |-> [t \in 0..(k - 1) |-> s.A.a[i][s.basis[t]]]]
        solved == linalgSolve(B, s.b, m, k)
        xb == solved.x
        \* minusd = np.linalg.solve(B, A), column by column
        minusd ==
            LET cols == [j \in 0..(n - 1) |->
                            linalgSolve(B, [i \in 0..(m - 1) |-> s.A.a[i][j]], m, k).x]
            IN  [i \in 0..(m - 1) |-> [j \in 0..(n - 1) |-> cols[j][i]]]
        cost == SumTo([i \in 0..(m - 1) |-> RMul(s.c[s.basis[i]], xb[i])], m)
        reducedCost ==
            [j \in 0..(n - 1) |->
                RSub(s.c[j],
                     SumTo([i \in 0..(m - 1) |-> RMul(s.c[s.basis[i]], minusd[i][j])], m))]
        negativeReducedCost == {j \in 0..(n - 1) : IsNeg(reducedCost[j])}
        p == enteringColumn(negativeReducedCost)
        steps == [i \in 0..(m - 1) |->
                     IF IsPos(minusd[i][p]) THEN RDiv(xb[i], minusd[i][p]) ELSE Inf]
        q == ArgMin(steps)
        step == steps[q]
        iteration(pp, qq, st) ==
            [xb |-> xb, cost |-> cost, basis |-> s.basis, reducedCost |-> reducedCost,
             step |-> st, p |-> pp, q |-> qq]
    IN  IF ~solved.ok
        THEN [s EXCEPT !.pc = "done", !.result = Raised("LinAlgError")]
        ELSE IF negativeReducedCost = {}
        THEN [s EXCEPT !.pc = "done",
                       !.iters = Append(@, iteration(None, None, None)),
                       !.optimalbasis = s.basis,
                       !.result = Returned(NoArray, FALSE, FALSE)]
        ELSE IF step = Inf
        THEN [s EXCEPT !.pc = "done",
                       !.iters = Append(@, iteration(p, q, step)),
                       !.optimalbasis = Array2D(m, 1, [i \in 0..(m - 1) |->
                                                          [j \in 0..0 |-> Zero]]),
                       !.result = Returned(NoArray, TRUE, FALSE)]
        ELSE [s EXCEPT !.iters = Append(@, iteration(p, q, step)),
                       !.basis = [@ EXCEPT ![q] = p]]

(***************************************************************************)
(* newtonLocal(fct, x0, eps, maxiter): Newton's local method (Algorithm    *)
(* 10.1) on functions of one variable; x, g and H are then a number, and   *)
(* np.linalg.norm(g) is |g|.  fct names the function that returns f, g, H. *)
(***************************************************************************)
\* the parameter maxiter is taken in 0..MaxMaxiter
MaxMaxiter == 3

\* the gradient g returned by fct(x):
\*   "cycle"      f = x^4 / 4 - x^2 + 2 x  (the iterates from 0 are 0, 1, 0, ...)
\*   "halving"    f = x^3 / 3              (the iterates are x, x / 2, x / 4, ...)
\*   "quadratic"  f = x^2 / 2              (one iteration reaches 0)
\*   "linear"     f = x                    (the hessian is singular)
Gradient(fct, x) ==
    CASE fct = "cycle" -> RAdd(RSub(RMul(x, RMul(x, x)), RMul(R(2), x)), R(2))
      [] fct = "halving" -> RMul(x, x)
      [] fct = "quadratic" -> x
      [] fct = "linear" -> One

\* the hessian H returned by fct(x)
Hessian(fct, x) ==
    CASE fct = "cycle" -> RSub(RMul(R(3), RMul(x, x)), R(2))
      [] fct = "halving" -> RMul(R(2), x)
      [] fct = "quadratic" -> One
      [] fct = "linear" -> Zero

\* the state at the call newtonLocal(fct, x0, eps, maxiter)
EntryNewton(fct, x0, eps, maxiter) ==
    [fct |-> fct, x0 |-> x0, eps |-> eps, maxiter |-> maxiter,
     k |-> 0, x |-> x0, g |-> Zero, H |-> Zero,
     returned |-> "nothing", message |-> ""]

\* lines 55-57
newtonStart(nw) ==
    [nw EXCEPT !.k = 0, !.x = nw.x0,
               !.g = Gradient(nw.fct, nw.x0), !.H = Hessian(nw.fct, nw.x0)]

\* np.linalg.norm(g) > eps
normAbove(g, eps) == RLt(eps, IF IsNeg(g) THEN RNeg(g) ELSE g)

\* the test of the loop, line 58
loopTest(nw) == normAbove(nw.g, nw.eps) /\ nw.k <= nw.maxiter

\* One turn of the loop of lines 58-66 and, when the loop ends, the return of
\* lines 68-71.  np.linalg.solve raises LinAlgError on a singular H; the name
\* LinAlgError of line 63 is not defined in the notebook (only numpy is
\* imported, as np), so that the except clause raises NameError.
newtonStep(nw) ==
    IF loopTest(nw)
    THEN IF nw.H = Zero
         THEN [nw EXCEPT !.k = @ + 1, !.returned = "raised", !.message = "NameError"]
         ELSE LET d == RDiv(RNeg(nw.g), nw.H)
                  x == RAdd(nw.x, d)
              IN  [nw EXCEPT !.k = @ + 1, !.x = x,
                             !.g = Gradient(nw.fct, x), !.H = Hessian(nw.fct, x)]
    ELSE IF ~normAbove(nw.g, nw.eps)
    THEN [nw EXCEPT !.returned = "x",
                    !.message = "Required precision has been reached"]
    ELSE [nw EXCEPT !.returned = "None",
                    !.message = "Maximum number of iterations reached"]

\* the functions and the starting points
NewtonStarts ==
    {<<"cycle", R(0)>>, <<"cycle", R(1)>>, <<"halving", R(1)>>, <<"halving", R(2)>>,
     <<"halving", R(0)>>, <<"quadratic", R(-1)>>, <<"quadratic", R(0)>>,
     <<"quadratic", R(2)>>, <<"linear", R(0)>>, <<"linear", R(1)>>}

\* the precisions
NewtonEps == {Zero, <<1, 8>>, <<1, 2>>, R(10)}

NewtonInputs ==
    {<<st[1], st[2], eps, maxiter>> :
        st \in NewtonStarts, eps \in NewtonEps, maxiter \in 0..MaxMaxiter}

(***************************************************************************)
(* The inputs of the model.                                                *)
(***************************************************************************)
Vec(seq) == [i \in 0..(Len(seq) - 1) |-> R(seq[i + 1])]
Mat(rows) ==
    Array2D(Len(rows), Len(rows[1]), [i \in 0..(Len(rows) - 1) |-> Vec(rows[i + 1])])

\* the entries of A, b and c
Vals == {R(-1), R(0), R(1)}
Vectors(k) == [0..(k - 1) -> Vals]
Matrices(m, n) == {Array2D(m, n, rows) : rows \in [0..(m - 1) -> Vectors(n)]}

Shapes ==
    {mn \in (1..(MaxDim - 1)) \X (1..(MaxDim - 1)) :
        mn[1] + mn[2] <= MaxDim /\ mn[1] * mn[2] <= MaxCells}

\* every problem of consistent sizes and of a shape of Shapes
GridInputs ==
    UNION { {<<A, b, c>> : A \in Matrices(mn[1], mn[2]),
                           b \in Vectors(mn[1]), c \in Vectors(mn[2])}
            : mn \in Shapes}

\* calls with b or c of the wrong length, on a 1 x 1 matrix
MismatchedInputs ==
    {<<A, b, c>> : A \in Matrices(1, 1), b \in Vectors(2), c \in Vectors(1)}
    \cup {<<A, b, c>> : A \in Matrices(1, 1), b \in Vectors(1), c \in Vectors(2)}

\* Examples 1, 2, 3 and 6 of the notebook
Example1 == <<Mat(<< <<1, 2, 3, 0>>, <<-1, 2, 6, 0>>, <<0, 4, 9, 0>>, <<0, 0, 3, 1>> >>),
              Vec(<<3, 2, 5, 1>>), Vec(<<1, 1, 1, 0>>)>>
Example2 == <<Mat(<< <<1, 2, 3, 0>>, <<-1, 2, 6, 0>>, <<0, 4, 9, 0>>, <<0, 4, 9, 0>>,
                     <<0, 0, 3, 1>> >>),
              Vec(<<3, 2, 5, 5, 1>>), Vec(<<1, 1, 1, 0>>)>>
Example3 == <<Mat(<< <<1, -1, 1, 0>>, <<-1, 1, 0, 1>> >>),
              Vec(<<-2, -1>>), Vec(<<-4, 2, 0, 0>>)>>
Example6 == <<Mat(<< <<1, 0>> >>), Vec(<<1>>), Vec(<<3, -2>>)>>
\* two constraints, each stated twice
TwoTwice == <<Mat(<< <<1, 0>>, <<1, 0>>, <<0, 1>>, <<0, 1>> >>),
              Vec(<<1, 1, 1, 1>>), Vec(<<1, 1>>)>>

Examples == {Example1, Example2, Example3, Example6, TwoTwice}

Inputs == GridInputs \cup MismatchedInputs \cup Examples

\* the entries of the problems with np.nan, np.inf or -np.inf among them
NonFiniteVals == {NaN, Inf, MinusInf}
AnyVals == Vals \cup NonFiniteVals

\* every problem of one row and one or two columns with an entry that is
\* not finite
NonFiniteInputs ==
    UNION { {inp \in {<<Array2D(1, k, rows), q, cost>> :
                         rows \in [0..0 -> [0..(k - 1) -> AnyVals]],
                         q \in [0..0 -> AnyVals], cost \in [0..(k - 1) -> AnyVals]} :
                \/ \E j \in 0..(k - 1) : ~IsFinite(inp[1].a[0][j])
                \/ ~IsFinite(inp[2][0])
                \/ \E j \in 0..(k - 1) : ~IsFinite(inp[3][j])}
            : k \in 1..2}

\* the bases: every list of m indices of columns, those that repeat a column
\* or select dependent columns included
Bases(m, n) == [0..(m - 1) -> 0..(n - 1)]

\* the shapes of the problems given with a basis
BasisShapes == {<<1, 1>>, <<1, 2>>, <<2, 1>>, <<1, 3>>, <<3, 1>>}

BasisGridInputs ==
    UNION { {<<P, q, cost, list>> :
                P \in Matrices(mn[1], mn[2]), q \in Vectors(mn[1]),
                cost \in Vectors(mn[2]), list \in Bases(mn[1], mn[2])}
            : mn \in BasisShapes}

\* problems of two rows and two columns with b = [1, 1]
BasisSquareInputs ==
    {<<P, Vec(<<1, 1>>), cost, list>> :
        P \in Matrices(2, 2), cost \in Vectors(2), list \in Bases(2, 2)}

\* the matrix [P | I]
WithSlacks(P) ==
    Array2D(P.mtab, P.ntab + P.mtab,
            [i \in 0..(P.mtab - 1) |->
                [j \in 0..(P.ntab + P.mtab - 1) |->
                    IF j < P.ntab THEN P.a[i][j]
                    ELSE IF j - P.ntab = i THEN One ELSE Zero]])

\* problems of two rows and four columns whose last two columns are those
\* of the identity, with b = [1, 1] or [1, 0] and basis = [2, 3] or
\* basis = [3, 2]
BasisWideInputs ==
    {<<WithSlacks(P), q, cost, list>> :
        P \in Matrices(2, 2), cost \in Vectors(4),
        q \in {Vec(<<1, 1>>), Vec(<<1, 0>>)},
        list \in {[i \in 0..1 |-> 2 + i], [i \in 0..1 |-> 3 - i]}}

\* calls with b or c of the wrong length
BasisMismatchedInputs ==
    {<<inp[1], inp[2], inp[3], list>> : inp \in MismatchedInputs, list \in Bases(1, 1)}

\* Example 1 of the notebook of the algorithm, with basis = [2, 3]
BasisExample1 ==
    <<Mat(<< <<1, 1, 1, 0>>, <<1, -1, 0, 1>> >>), Vec(<<1, 1>>),
      Vec(<<-1, -2, 0, 0>>), [i \in 0..1 |-> i + 2]>>

BasisInputs ==
    BasisGridInputs \cup BasisSquareInputs \cup BasisMismatchedInputs
    \cup {BasisExample1}

(***************************************************************************)
(* The state machine: one run of simplex(A, b, c) on an input of Inputs.   *)
(***************************************************************************)
VARIABLES pc, A, b, c, A0, b0, c0, m, n, tableau, aliased, phaseOneTableau,
          basicRows, rowsToRemove, phaseTwoTableau, pivots, turns, call, result,
          basis, basis0, optimalbasis, iters, newton

vars == <<pc, A, b, c, A0, b0, c0, m, n, tableau, aliased, phaseOneTableau,
          basicRows, rowsToRemove, phaseTwoTableau, pivots, turns, call, result,
          basis, basis0, optimalbasis, iters, newton>>

\* the state as a record, and the state a record stands for
Cur ==
    [pc |-> pc, A |-> A, b |-> b, c |-> c, A0 |-> A0, b0 |-> b0, c0 |-> c0,
     m |-> m, n |-> n, tableau |-> tableau, aliased |-> aliased,
     phaseOneTableau |-> phaseOneTableau, basicRows |-> basicRows,
     rowsToRemove |-> rowsToRemove, phaseTwoTableau |-> phaseTwoTableau,
     pivots |-> pivots, turns |-> turns, call |-> call, result |-> result,
     basis |-> basis, basis0 |-> basis0, optimalbasis |-> optimalbasis,
     iters |-> iters, newton |-> newton]

\* the record s is the present state
IsState(s) ==
    /\ pc = s.pc /\ A = s.A /\ b = s.b /\ c = s.c
    /\ A0 = s.A0 /\ b0 = s.b0 /\ c0 = s.c0
    /\ m = s.m /\ n = s.n /\ tableau = s.tableau /\ aliased = s.aliased
    /\ phaseOneTableau = s.phaseOneTableau /\ basicRows = s.basicRows
    /\ rowsToRemove = s.rowsToRemove /\ phaseTwoTableau = s.phaseTwoTableau
    /\ pivots = s.pivots /\ turns = s.turns /\ call = s.call /\ result = s.result
    /\ basis = s.basis /\ basis0 = s.basis0
    /\ optimalbasis = s.optimalbasis /\ iters = s.iters
    /\ newton = s.newton

Becomes(s) ==
    /\ pc' = s.pc /\ A' = s.A /\ b' = s.b /\ c' = s.c
    /\ A0' = s.A0 /\ b0' = s.b0 /\ c0' = s.c0
    /\ m' = s.m /\ n' = s.n /\ tableau' = s.tableau /\ aliased' = s.aliased
    /\ phaseOneTableau' = s.phaseOneTableau /\ basicRows' = s.basicRows
    /\ rowsToRemove' = s.rowsToRemove /\ phaseTwoTableau' = s.phaseTwoTableau
    /\ pivots' = s.pivots /\ turns' = s.turns /\ call' = s.call /\ result' = s.result
    /\ basis' = s.basis /\ basis0' = s.basis0
    /\ optimalbasis' = s.optimalbasis /\ iters' = s.iters
    /\ newton' = s.newton

InitOn(inputs) == \E inp \in inputs : IsState(Entry(inp[1], inp[2], inp[3]))

Init == InitOn(Inputs)

Start == pc = "start" /\ Becomes(startStep(Cur))

PhaseOne == pc = "phase1" /\ pivots < MaxPivots /\ Becomes(phaseOneStep(Cur))

Clean == pc = "clean" /\ \E s \in cleanStep(Cur) : Becomes(s)

PhaseTwo == pc = "phase2" /\ pivots < MaxPivots /\ Becomes(phaseTwoStep(Cur))

Next == Start \/ PhaseOne \/ Clean \/ PhaseTwo

Spec == Init /\ [][Next]_vars

(***************************************************************************)
(* Runs on problems whose right-hand sides differ by less than the         *)
(* tolerance of the infeasibility test.                                    *)
(***************************************************************************)
\* the right-hand sides 1 + k * sqrt(eps) / 2 for k = 0..MaxNudge
MaxNudge == 3
Nudged(k) == Norm(2 * SqrtEpsInv + k, 2 * SqrtEpsInv)

NudgedInputs ==
    {<<P, q, cost>> : P \in Matrices(2, 1),
                      q \in [0..1 -> {Nudged(k) : k \in 0..MaxNudge}],
                      cost \in Vectors(1)}

\* x0 = 1 and x0 - x1 / 4 = 1 + sqrt(eps) / 2: no point with x >= 0
Amplified ==
    <<Array2D(2, 2, [i \in 0..1 |-> [j \in 0..1 |->
                        IF j = 0 THEN One ELSE IF i = 0 THEN Zero ELSE <<-1, 4>>]]),
      [i \in 0..1 |-> IF i = 0 THEN One ELSE Nudged(1)],
      [j \in 0..1 |-> Zero]>>

InitTol == InitOn(Inputs \cup NudgedInputs \cup {Amplified})

SpecTol == InitTol /\ [][Next]_vars

(***************************************************************************)
(* Runs on a degenerate problem (b = 0: every pivot has a least ratio of   *)
(* 0), together with the runs of Spec.                                     *)
(***************************************************************************)
\* minimise x0 + 3 x1 - 2 x3 subject to three equations with right-hand
\* side 0, x4, x5, x6 being the slack variables of the three rows
Degenerate ==
    <<Mat(<< <<-2, 3, 0, 1, 1, 0, 0>>,
             <<-3, 2, -1, 2, 0, 1, 0>>,
             <<-2, 1, 2, 2, 0, 0, 1>> >>),
      Vec(<<0, 0, 0>>), Vec(<<1, 3, 0, -2, 0, 0, 0>>)>>

InitDegenerate == InitOn(Inputs \cup {Degenerate})

SpecDegenerate == InitDegenerate /\ [][Next]_vars

(***************************************************************************)
(* Runs on problems with entries that are not finite.                      *)
(***************************************************************************)
InitNonFinite == InitOn(NonFiniteInputs)

SpecNonFinite == InitNonFinite /\ [][Next]_vars

(***************************************************************************)
(* pivoting called on its own, as in the notebook of the pivoting          *)
(* exercise: any tableau of PivotTableaux, any column p and row q, those   *)
(* one past the last column and row included; together with the calls the  *)
(* runs of simplex make.                                                   *)
(***************************************************************************)
PivotVals == {R(-1), R(0), R(1), R(2), <<1, 2>>}

\* the tableau of the exercise, pivoted there at p = 1, q = 2
ExerciseTableau ==
    Array2D(4, 7, [i \in 0..3 |-> [j \in 0..6 |->
        << <<R(0), <<3, 2>>, R(1), R(1), <<-1, 2>>, R(0), R(10)>>,
           <<R(1), <<1, 2>>, R(1), R(0), <<1, 2>>, R(0), R(10)>>,
           <<R(0), R(1), R(-1), R(0), R(-1), R(1), R(0)>>,
           <<R(0), R(-7), R(-2), R(0), R(5), R(0), R(100)>> >>[i + 1][j + 1]]])

\* what the exercise prints for it
ExerciseOutput ==
    Array2D(4, 7, [i \in 0..3 |-> [j \in 0..6 |->
        << <<R(0), R(0), <<5, 2>>, R(1), R(1), <<-3, 2>>, R(10)>>,
           <<R(1), R(0), <<3, 2>>, R(0), R(1), <<-1, 2>>, R(10)>>,
           <<R(0), R(1), R(-1), R(0), R(-1), R(1), R(0)>>,
           <<R(0), R(0), R(-9), R(0), R(-2), R(7), R(100)>> >>[i + 1][j + 1]]])

\* sqrt(eps) / 2 = 2^-27: more than eps, less than sqrt(eps)
HalfSqrtEps == <<1, 2 * SqrtEpsInv>>

\* tableaux with an entry at sqrt(eps) / 2 from 0 or from 1
ToleranceTableaux ==
    {Array2D(2, 2, [i \in 0..1 |-> [j \in 0..1 |->
                        IF <<i, j>> = at THEN v ELSE IF i = j THEN One ELSE Zero]])
        : at \in {<<0, 0>>, <<0, 1>>, <<1, 0>>},
          v \in {HalfSqrtEps, RNeg(HalfSqrtEps), Nudged(1)}}

PivotTableaux ==
    {Array2D(2, 2, rows) : rows \in [0..1 -> [0..1 -> PivotVals]]}
    \cup {Array2D(3, 2, rows) : rows \in [0..2 -> [0..1 -> Vals]]}
    \cup {ExerciseTableau}
    \cup ToleranceTableaux

InitPivot ==
    \E t \in PivotTableaux :
        IsState([Entry(NoArray, <<>>, <<>>) EXCEPT !.pc = "pivoting", !.tableau = t])

\* newtableau = pivoting(tableau, p, q)
Pivot ==
    /\ pc = "pivoting"
    /\ \E p \in 0..tableau.ntab, q \in 0..tableau.mtab :
          LET r == pivoting(tableau, p, q)
          IN  Becomes([Cur EXCEPT !.pc = "done", !.tableau = r.tableau,
                                  !.call = Call("direct", tableau, p, q, r)])

\* pivoting(newtableau, p, q): the tableau returned by a direct call is
\* pivoted again on the same column and row
Repivot ==
    /\ pc = "done" /\ call.where = "direct" /\ ~call.raised
    /\ LET r == pivoting(call.newtableau, call.p, call.q)
       IN  Becomes([Cur EXCEPT !.pc = "repivoted",
                               !.call = Call("again", call.newtableau,
                                             call.p, call.q, r)])

\* the calls of pivoting: those of the runs of simplex and those made directly
InitCalls == Init \/ InitPivot

NextCalls == Start \/ PhaseOne \/ Clean \/ PhaseTwo \/ Pivot \/ Repivot

SpecCalls == InitCalls /\ [][NextCalls]_vars

(***************************************************************************)
(* What the caller reads from the value returned (printResults).           *)
(***************************************************************************)
Done == pc = "done"

\* the classification of the value returned; the exception when one was raised
statusOf(res) ==
    IF res.kind # "returned" THEN res.kind
    ELSE IF res.unbounded THEN "UNBOUNDED"
    ELSE IF res.infeasible THEN "INFEASIBLE"
    ELSE "OPTIMAL"

\* copt = -finalTableau[-1, -1]
objectiveValue(finalTableau) == RNeg(LastRow(finalTableau)[finalTableau.ntab - 1])

\* solution[k] = finalTableau[basicRows[k], -1] if basicRows[k] is not None else 0
solution(finalTableau) ==
    [k \in 0..(finalTableau.ntab - 2) |->
        IF getRow(finalTableau, k) # None
        THEN finalTableau.a[getRow(finalTableau, k)][finalTableau.ntab - 1]
        ELSE Zero]

(***************************************************************************)
(* The linear problem itself, solved independently of the program: the     *)
(* set {x >= 0 : M x = rhs} is non empty iff it has a basic solution (a    *)
(* point whose support is a set of independent columns), a minimum, when   *)
(* there is one, is attained at a basic solution, and the problem is       *)
(* unbounded iff it is feasible and some d >= 0 with M d = 0 and           *)
(* sum(d) = 1 has cost.d < 0, which is again a question about basic        *)
(* solutions.  M is a function on 0..nr-1 of rows, rows are functions on   *)
(* 0..nc-1.                                                                *)
(***************************************************************************)
RECURSIVE Sorted(_)
Sorted(S) == IF S = {} THEN <<>> ELSE <<SetMin(S)>> \o Sorted(S \ {SetMin(S)})

Dot(u, v, k) == SumTo([i \in 0..(k - 1) |-> RMul(u[i], v[i])], k)

\* the basic solution of M x = rhs with support in the set S of columns
BasicSolution(M, rhs, nr, nc, S) ==
    LET cols == Sorted(S)
        k == Len(cols)
        G == [i \in 0..(nr - 1) |->
                [t \in 0..k |-> IF t < k THEN M[i][cols[t + 1]] ELSE rhs[i]]]
        e == Eliminate(G, nr, k, 0)
        x == [j \in 0..(nc - 1) |->
                IF e.ok /\ j \in S
                THEN e.G[CHOOSE t \in 0..(k - 1) : cols[t + 1] = j][k]
                ELSE Zero]
    IN  [ok |-> e.ok /\ \A t \in 0..(k - 1) : ~IsNeg(e.G[t][k]), x |-> x]

\* the basic solutions with support in one of the sets of columns
SolutionsOn(M, rhs, nr, nc, supports) ==
    {sol.x : sol \in {s \in {BasicSolution(M, rhs, nr, nc, S) : S \in supports}
                        : s.ok}}

\* independent columns are nr at most
BasicSolutions(M, rhs, nr, nc) ==
    SolutionsOn(M, rhs, nr, nc, {S \in SUBSET (0..(nc - 1)) : Cardinality(S) <= nr})

\* the directions d >= 0 with M d = 0, sum(d) = 1 that are basic
BasicRays(M, nr, nc) ==
    BasicSolutions([i \in 0..nr |-> IF i < nr THEN M[i] ELSE [j \in 0..(nc - 1) |-> One]],
                   [i \in 0..nr |-> IF i < nr THEN Zero ELSE One], nr + 1, nc)

RMinOf(S) == CHOOSE x \in S : \A y \in S : RLe(x, y)

\* [feasible, unbounded, value]: value is the minimum when there is one
LP(M, rhs, cost, nr, nc) ==
    LET sols == BasicSolutions(M, rhs, nr, nc)
        feasible == sols # {}
        unbounded == feasible /\ \E d \in BasicRays(M, nr, nc) : IsNeg(Dot(cost, d, nc))
    IN  [feasible |-> feasible, unbounded |-> unbounded,
         value |-> IF feasible /\ ~unbounded
                   THEN RMinOf({Dot(cost, x, nc) : x \in sols}) ELSE Zero]

\* the problem min c.x, A x = b, x >= 0 of the call
Problem(P, q, cost) == LP(P.a, q, cost, P.mtab, P.ntab)

\* {x >= 0 : P x = q} is not empty
HasFeasiblePoint(P, q) == BasicSolutions(P.a, q, P.mtab, P.ntab) # {}

\* x >= 0 and A x = b
IsFeasiblePoint(P, q, x) ==
    /\ \A k \in 0..(P.ntab - 1) : ~IsNeg(x[k])
    /\ \A i \in 0..(P.mtab - 1) : Dot(P.a[i], x, P.ntab) = q[i]

(***************************************************************************)
(* Runs of simplex on another input, for properties that relate two runs.   *)
(***************************************************************************)
RECURSIVE Outcomes(_)
\* the results of the runs from state s
Outcomes(s) ==
    IF s.pc = "done" THEN {s.result}
    ELSE UNION {Outcomes(t) : t \in Successors(s)}

Runs(P, q, cost) == Outcomes(Entry(P, q, cost))

\* the array without row j, the vector without entry j
WithoutRow(P, j) == DeleteRows(P, {j})
WithoutEntry(q, j) ==
    [i \in 0..(Len0(q) - 2) |-> IF i < j THEN q[i] ELSE q[i + 1]]

\* the rows of (P, q) that repeat another row
RepeatedRows(P, q) ==
    {j \in 0..(P.mtab - 1) :
        \E i \in 0..(P.mtab - 1) : i # j /\ P.a[i] = P.a[j] /\ q[i] = q[j]}

(***************************************************************************)
(* The auxiliary problem, solved independently of the program: the least   *)
(* sum of the auxiliary variables y >= 0 in s_i (P x)_i + y_i = |q_i|,     *)
(* x >= 0, where s_i is the sign of q_i.  The problem has a feasible point *)
(* (x = 0, y = |q|) and its cost is bounded below by 0, so the minimum is  *)
(* attained at a basic solution; the columns of y being independent,       *)
(* every basic solution has its support in a set of nr independent         *)
(* columns.                                                                *)
(***************************************************************************)
TotalViolation(P, q) ==
    LET nr == P.mtab
        nc == P.ntab
        M == [i \in 0..(nr - 1) |->
                [j \in 0..(nc + nr - 1) |->
                    IF j < nc
                    THEN (IF IsNeg(q[i]) THEN RNeg(P.a[i][j]) ELSE P.a[i][j])
                    ELSE IF j - nc = i THEN One ELSE Zero]]
        rhs == [i \in 0..(nr - 1) |-> IF IsNeg(q[i]) THEN RNeg(q[i]) ELSE q[i]]
        cost == [j \in 0..(nc + nr - 1) |-> IF j < nc THEN Zero ELSE One]
        bases == {S \in SUBSET (0..(nc + nr - 1)) : Cardinality(S) = nr}
    IN  RMinOf({Dot(cost, x, nc + nr) : x \in SolutionsOn(M, rhs, nr, nc + nr, bases)})

(***************************************************************************)
(* The runs of simplex(A, b, c, basis), together with those of             *)
(* simplex(A, b, c).                                                       *)
(***************************************************************************)
InitBasis ==
    \E inp \in BasisInputs : IsState(EntryBasis(inp[1], inp[2], inp[3], inp[4]))

BasisStart == pc = "basis start" /\ Becomes(basisStart(Cur))

BasisStep == pc = "basis" /\ Len(iters) < MaxPivots /\ Becomes(basisStep(Cur))

\* the runs of both functions named simplex
InitBoth == Init \/ InitBasis

NextBoth == Start \/ PhaseOne \/ Clean \/ PhaseTwo \/ BasisStart \/ BasisStep

SpecBoth == InitBoth /\ [][NextBoth]_vars

\* the runs of simplex(A, b, c, basis) alone, the problems of two rows and
\* four columns among them
InitBasisWide ==
    \E inp \in BasisInputs \cup BasisWideInputs :
        IsState(EntryBasis(inp[1], inp[2], inp[3], inp[4]))

NextBasis == BasisStart \/ BasisStep

SpecBasis == InitBasisWide /\ [][NextBasis]_vars

(***************************************************************************)
(* The runs of newtonLocal.                                                *)
(***************************************************************************)
InitNewton ==
    \E inp \in NewtonInputs :
        IsState([Entry(NoArray, <<>>, <<>>) EXCEPT
                    !.pc = "newton start",
                    !.newton = EntryNewton(inp[1], inp[2], inp[3], inp[4])])

NewtonStart ==
    /\ pc = "newton start"
    /\ Becomes([Cur EXCEPT !.pc = "newton", !.newton = newtonStart(newton)])

NewtonStep ==
    /\ pc = "newton"
    /\ LET nw == newtonStep(newton)
       IN  Becomes([Cur EXCEPT !.pc = IF nw.returned = "nothing" THEN "newton"
                                      ELSE "newton done",
                               !.newton = nw])

NextNewton == NewtonStart \/ NewtonStep

SpecNewton == InitNewton /\ [][NextNewton]_vars

(***************************************************************************)
(* Properties.                                                             *)
(***************************************************************************)
\* the call had matching dimensions and has ended
Ended == Done /\ result.kind # "Incompatible sizes"

\* a call of pivoting has been made and has returned
Pivoted == call.where # "none" /\ ~call.raised

\* C1: when simplex reports OPTIMAL on an input of matching dimensions, the
\* objective value read from the returned tableau is the minimum of c.x over
\* {x >= 0 : A x = b} (the set is non empty and c.x is bounded below on it).
C1_ObjectiveIsMinimum ==
    (Ended /\ statusOf(result) = "OPTIMAL") =>
        LET lp == Problem(A0, b0, c0)
        IN  /\ lp.feasible
            /\ ~lp.unbounded
            /\ objectiveValue(result.tableau) = lp.value

\* C2: when simplex reports OPTIMAL, the solution recovered from the returned
\* tableau satisfies A x = b and x >= 0, and c.x is the reported objective
\* value.
C2_SolutionIsFeasible ==
    (Ended /\ statusOf(result) = "OPTIMAL") =>
        LET x == solution(result.tableau)
        IN  /\ Len0(x) = A0.ntab
            /\ IsFeasiblePoint(A0, b0, x)
            /\ Dot(c0, x, A0.ntab) = objectiveValue(result.tableau)

\* C3, as stated: simplex reports INFEASIBLE exactly when {x >= 0 : A x = b}
\* is empty.
C3_InfeasibleIffEmpty ==
    Ended => (statusOf(result) = "INFEASIBLE" <=> ~HasFeasiblePoint(A0, b0))

\* C3, amended: simplex reports INFEASIBLE exactly when the least sum of the
\* auxiliary variables exceeds sqrt(eps); in particular never for a problem
\* that has a feasible point.
C3_InfeasibleIffBeyondTolerance ==
    Ended =>
        /\ statusOf(result) = "INFEASIBLE"
              <=> LtMinusSqrtEps(RNeg(TotalViolation(A0, b0)))
        /\ statusOf(result) = "INFEASIBLE" => ~HasFeasiblePoint(A0, b0)

\* C3, the case of the amendment: a problem without a feasible point, whose
\* violation is within the tolerance, is not reported INFEASIBLE
C3_EmptyWithinTolerance ==
    /\ Ended
    /\ statusOf(result) \in {"OPTIMAL", "UNBOUNDED"}
    /\ ~HasFeasiblePoint(A0, b0)
    /\ IsPos(TotalViolation(A0, b0))

\* C4: simplex reports UNBOUNDED exactly when the problem has a feasible point
\* and c.x is unbounded below on {x >= 0 : A x = b}.
C4_UnboundedIffUnbounded ==
    Ended =>
        LET lp == Problem(A0, b0, c0)
        IN  statusOf(result) = "UNBOUNDED" <=> (lp.feasible /\ lp.unbounded)

\* C5: when a row of A is a copy of another row (with its entry of b), every
\* run on the problem without the copy that ends OPTIMAL has the status, the
\* objective value and the recovered solution of the run on the problem with
\* the copy.
C5_DuplicateRowsSameAnswer ==
    Ended =>
        \A j \in RepeatedRows(A0, b0) :
            \A o \in Runs(WithoutRow(A0, j), WithoutEntry(b0, j), c0) :
                statusOf(o) = "OPTIMAL" =>
                    /\ statusOf(result) = "OPTIMAL"
                    /\ objectiveValue(result.tableau) = objectiveValue(o.tableau)
                    /\ solution(result.tableau) = solution(o.tableau)

\* C6: after every pivot of a run of simplex (of the iterator in either
\* phase, or one that drives an auxiliary variable out of the basis) every
\* right-hand side of a constraint row is >= -sqrt(eps).
C6_RightHandSidesNonNegative ==
    Pivoted =>
        \A i \in 0..(call.newtableau.mtab - 2) :
            ~LtMinusSqrtEps(call.newtableau.a[i][call.newtableau.ntab - 1])

\* column k of t is the i-th unit vector over all rows, the last included
IsUnitColumn(t, k, i) ==
    \A r \in 0..(t.mtab - 1) : t.a[r][k] = IF r = i THEN One ELSE Zero

\* every constraint row of t has a variable basic in it
HasBasis(t) ==
    \A i \in 0..(t.mtab - 2) :
        \E k \in 0..(t.ntab - 2) : IsUnitColumn(t, k, i) /\ getRow(t, k) = i

\* C7: in every tableau of the iterator, in either phase, each constraint row
\* i has a variable whose column is the i-th unit vector over all rows and
\* for which getRow returns i; after a pivot of the iterator on column p and
\* row q, getRow of the new tableau at p is q.
C7_UnitColumns ==
    /\ pc = "phase1" => HasBasis(phaseOneTableau)
    /\ pc = "phase2" => HasBasis(phaseTwoTableau)
    /\ (Pivoted /\ call.where \in {"phase1", "phase2"}) =>
          /\ IsUnitColumn(call.newtableau, call.p, call.q)
          /\ getRow(call.newtableau, call.p) = call.q

\* C7, the case: the iterator has pivoted in the second phase, on a tableau
\* of two constraint rows or more, and is at its next tableau
C7_AfterPivotOfPhaseTwo ==
    /\ pc = "phase2"
    /\ call.where = "phase2"
    /\ ~call.raised
    /\ phaseTwoTableau = call.newtableau
    /\ phaseTwoTableau.mtab >= 3
    /\ getRow(phaseTwoTableau, call.p) = call.q

\* the tableau with the last entry of its last row replaced by v
WithObjectiveRHS(t, v) == [t EXCEPT !.a[t.mtab - 1][t.ntab - 1] = v]

\* no entry of the last row of t, its last entry excluded, is negative
NoNegativeReducedCost(t) ==
    \A k \in 0..(t.ntab - 2) : ~IsNeg(LastRow(t)[k])

\* the selector on t says OPTIMAL iff no reduced cost is negative, whatever
\* the last entry of the last row
CertifiesOptimality(t) ==
    /\ simplexTableau(t).opt <=> NoNegativeReducedCost(t)
    /\ \A v \in Vals :
          simplexTableau(WithObjectiveRHS(t, v)).opt = simplexTableau(t).opt

\* C8: on every tableau of the iterator the selector reports OPTIMAL exactly
\* when no entry of the last row, the right-hand side excluded, is negative,
\* whatever the sign of that right-hand side; every tableau returned with
\* status OPTIMAL has no negative reduced cost.
C8_OptimalityCertificate ==
    /\ pc = "phase1" => CertifiesOptimality(phaseOneTableau)
    /\ pc = "phase2" => CertifiesOptimality(phaseTwoTableau)
    /\ (Ended /\ statusOf(result) = "OPTIMAL") => NoNegativeReducedCost(result.tableau)

\* C8, the case: OPTIMAL is returned with a negative right-hand side in the
\* last row (a positive objective value)
C8_OptimalWithNegativeRHS ==
    /\ Ended
    /\ statusOf(result) = "OPTIMAL"
    /\ IsNeg(LastRow(result.tableau)[result.tableau.ntab - 1])

C10_InputUnchanged ==
    /\ call.where # "none" => call.tableau = call.arg
    /\ (pc = "done" /\ call.where = "direct") => tableau = call.arg
    /\ (call.where # "direct" /\ (pc \in {"phase1", "clean", "phase2"} \/ Ended)) =>
          tableau = firstTableau(A, b, A.mtab, A.ntab)

\* C10, the case: a direct call on a row and a column of the tableau that
\* raised, the pivot being rejected
C10_CallRaised ==
    /\ pc = "done"
    /\ call.where = "direct"
    /\ call.raised
    /\ call.q < call.arg.mtab /\ call.p < call.arg.ntab

\* the call pivoting(t, p, q) was made with q a row and p a column of t
OnEntry == call.where # "none" /\ call.q < call.arg.mtab /\ call.p < call.arg.ntab

\* the entry t[q][p] of the call
PivotEntry == call.arg.a[call.q][call.p]

\* C11, as stated: pivoting(t, p, q) raises whenever t[q][p] does not exceed
\* eps (zero, near zero or negative) and returns only when t[q][p] > eps.
C11_RejectedUnlessAboveTolerance ==
    OnEntry => (call.raised <=> (IsNeg(PivotEntry) \/ ~AbsGtEps(PivotEntry)))

\* C11, amended: pivoting(t, p, q) raises exactly when |t[q][p]| < eps; it
\* returns for every entry of either sign whose absolute value is eps or more,
\* and what it returns is then a tableau of the shape of t.
C11_RejectedIffWithinTolerance ==
    OnEntry =>
        /\ PivotEntry = Zero => call.raised
        /\ (IsPos(PivotEntry) /\ AbsGtEps(PivotEntry)) => ~call.raised
        /\ (IsNeg(PivotEntry) /\ AbsGtEps(RNeg(PivotEntry))) => ~call.raised
        /\ call.raised <=> AbsLtEps(PivotEntry)
        /\ ~call.raised => /\ call.newtableau.mtab = call.arg.mtab
                           /\ call.newtableau.ntab = call.arg.ntab

\* C11, the case of the amendment: a direct call on a negative entry returned
C11_NegativePivotAccepted ==
    /\ pc = "done"
    /\ call.where = "direct"
    /\ OnEntry
    /\ IsNeg(PivotEntry)
    /\ ~call.raised
    /\ call.newtableau.a[call.q][call.p] = One

IteratorTableaux ==
    (IF pc = "phase1" THEN {phaseOneTableau} ELSE {})
    \cup (IF pc = "phase2" THEN {phaseTwoTableau} ELSE {})
    \cup (IF call.where \in {"phase1", "phase2"} THEN {call.arg} ELSE {})

\* the columns of t, the last excluded, with a negative entry in the last row
NegativeColumns(t) == {k \in 0..(t.ntab - 2) : IsNeg(LastRow(t)[k])}

\* the first column with a negative reduced cost
FirstNegative(t) == SetMin(NegativeColumns(t))

\* the first of the columns attaining the most negative reduced cost
MostNegative(t) ==
    SetMin({k \in NegativeColumns(t) :
               \A j \in NegativeColumns(t) : RLe(LastRow(t)[k], LastRow(t)[j])})

\* the column the selector returns on t is the column Column(t) whenever it
\* returns one, and so is the column of every pivot of the iterator
EntersBy(Column(_)) ==
    /\ \A t \in IteratorTableaux :
          LET sel == simplexTableau(t)
          IN  (NegativeColumns(t) # {} /\ ~sel.raised /\ sel.bounded) =>
                  sel.p = Column(t)
    /\ call.where \in {"phase1", "phase2"} => call.p = Column(call.arg)

\* C13, as stated: when the last row has a negative entry, the entering column
\* returned by simplexTableau is the first of the columns attaining the most
\* negative reduced cost.
C13_EntersMostNegative == EntersBy(MostNegative)

\* C13, amended: when the last row has a negative entry and the selector
\* returns a pivot, the entering column is the first column with a negative
\* reduced cost, whatever its size.
C13_EntersFirstNegative == EntersBy(FirstNegative)

\* C13, the case of the amendment: the iterator has pivoted on the first
\* negative column, a later column having a more negative reduced cost
C13_LaterColumnMoreNegative ==
    /\ call.where \in {"phase1", "phase2"}
    /\ ~call.raised
    /\ call.p = FirstNegative(call.arg)
    /\ MostNegative(call.arg) > call.p

\* the constraint rows of t with a positive entry in column p
PositiveRows(t, p) == {k \in 0..(t.mtab - 2) : IsPos(t.a[k][p])}

\* the first of the rows of PositiveRows attaining the least rhs[k] / t[k][p]
\* (ratios compared by cross multiplication)
MinRatioRow(t, p) ==
    LET rhs(k) == t.a[k][t.ntab - 1]
    IN  SetMin({k \in PositiveRows(t, p) :
                   \A j \in PositiveRows(t, p) :
                       RLe(RMul(rhs(k), t.a[j][p]), RMul(rhs(j), t.a[k][p]))})

\* the leaving row rule on the tableau t
LeavesByMinRatio(t) ==
    LET sel == simplexTableau(t)
        p == FirstNegative(t)
    IN  NegativeColumns(t) # {} =>
            /\ ~sel.raised
            /\ PositiveRows(t, p) = {} => (~sel.opt /\ ~sel.bounded /\ sel.q = None)
            /\ PositiveRows(t, p) # {} =>
                  /\ sel.bounded
                  /\ sel.q = MinRatioRow(t, p)
                  /\ sel.q < t.mtab - 1
                  /\ IsPos(t.a[sel.q][p])

\* C14: on every tableau of the iterator with a negative reduced cost, the
\* selector reports UNBOUNDED when no constraint row has a positive entry in
\* the entering column, and otherwise returns the first constraint row
\* attaining the least ratio rhs[k] / tableau[k][p] over the rows with
\* tableau[k][p] > 0; the row of every pivot of the iterator is that row,
\* never the last row and never a row with tableau[k][p] <= 0.
C14_LeavingRow ==
    /\ \A t \in IteratorTableaux : LeavesByMinRatio(t)
    /\ call.where \in {"phase1", "phase2"} =>
          /\ call.q = MinRatioRow(call.arg, call.p)
          /\ call.q < call.arg.mtab - 1
          /\ IsPos(call.arg.a[call.q][call.p])

\* the arrays of the present state that are tableaux
Tableaux ==
    {t \in {tableau, phaseOneTableau, phaseTwoTableau, call.arg, call.newtableau,
            result.tableau} : t.mtab >= 1 /\ t.ntab >= 2}

\* the rows of column k of t whose entry is non zero within the tolerance
NonZeroRows(t, k) == {j \in 0..(t.mtab - 1) : AbsGtSqrtEps(t.a[j][k])}

\* the row j when the entry in row j is the only non zero entry of column k
\* and is 1 within the tolerance, None for every other column
Locate(t, k) ==
    LET rows == NonZeroRows(t, k)
    IN  IF /\ Cardinality(rows) = 1
           /\ \A j \in rows : ~AbsGtEps(RSub(t.a[j][k], One))
        THEN CHOOSE j \in rows : TRUE
        ELSE None

\* C15: for every tableau and every variable index k, getRow returns row j
\* exactly when the entry in row j is the only entry of column k, over all
\* rows, the last included, that is non zero within the tolerance, and that
\* entry is 1 within the tolerance; it returns None for every other column.
C15_LocatesUnitColumns ==
    \A t \in Tableaux : \A k \in 0..(t.ntab - 2) :
        LET row == getRow(t, k)
        IN  /\ row = Locate(t, k)
            /\ row # None =>
                  /\ row \in 0..(t.mtab - 1)
                  /\ \A j \in 0..(t.mtab - 1) :
                        j # row => ~AbsGtSqrtEps(t.a[j][k])

\* C15, the case: a direct call on a tableau whose column 0 has a 1 in row 0
\* and sqrt(eps) / 2 in the last row (variable 0 is basic in row 0), and which
\* returned a tableau whose column 0 has its 1 in the last row (variable 0 is
\* basic in the last row)
C15_BasicWithinTolerance ==
    /\ pc = "done"
    /\ call.where = "direct"
    /\ ~call.raised
    /\ call.arg.a[0][0] = One /\ call.arg.a[1][0] = HalfSqrtEps
    /\ getRow(call.arg, 0) = 0
    /\ getRow(call.newtableau, 0) = call.newtableau.mtab - 1

\* the length of b is not the number of rows of A, or the length of c is not
\* its number of columns
Mismatched == Len0(b0) # A0.mtab \/ Len0(c0) # A0.ntab

\* C16: a call of simplex(A, b, c) or of simplex(A, b, c, basis) with b or c
\* of the wrong length raises 'Incompatible sizes' at its first step, and only
\* such a call does; when it has raised, no tableau was built, no pivot and
\* no iteration was made, and A, b, c and basis hold what the caller passed.
C16_MismatchRaisesFirst ==
    /\ Done => (result.kind = "Incompatible sizes" <=> Mismatched)
    /\ Mismatched =>
          /\ pc \in {"start", "basis start", "done"}
          /\ tableau = NoArray /\ phaseOneTableau = NoArray
          /\ phaseTwoTableau = NoArray
          /\ call = NoCall /\ pivots = 0 /\ iters = <<>>
          /\ A = A0 /\ b = b0 /\ c = c0 /\ basis = basis0

\* C16, the case: simplex(A, b, c) has raised on a b that is too long and
\* has a negative entry in a row of A
C16_RaisedOnNegativeb ==
    /\ Done
    /\ result.kind = "Incompatible sizes"
    /\ basis0 = <<>>
    /\ Len0(b0) > A0.mtab
    /\ IsNeg(b0[0])
    /\ \E j \in 0..(A0.ntab - 1) : A0.a[0][j] # Zero
    /\ A = A0 /\ b = b0

\* C17: when a call simplex(A, b, c) has ended, the arrays A, b and c of the
\* caller hold the values they held before the call, also when some entry of
\* b is negative.
C17_ProblemUnchanged ==
    (Done /\ basis0 = <<>> /\ call.where \notin {"direct", "again"}) =>
        /\ A = A0
        /\ b = b0
        /\ c = c0

\* C18: on every input of matching dimensions whose problem is unbounded or
\* has no feasible point, simplex returns a value (tableau, unbounded,
\* infeasible) and raises nothing; in every value returned at most one of
\* the two flags is true.
C18_ClassifiedNotRaised ==
    Ended =>
        LET lp == Problem(A0, b0, c0)
        IN  /\ (~lp.feasible \/ lp.unbounded) => result.kind = "returned"
            /\ result.kind = "returned" => ~(result.unbounded /\ result.infeasible)

\* an entry of the A, b or c passed to the call is np.nan, np.inf or -np.inf
HasNonFinite ==
    \/ \E i \in 0..(A0.mtab - 1) : \E j \in 0..(A0.ntab - 1) : ~IsFinite(A0.a[i][j])
    \/ \E i \in DOMAIN b0 : ~IsFinite(b0[i])
    \/ \E j \in DOMAIN c0 : ~IsFinite(c0[j])

\* C19: on an input with an entry that is not finite, simplex builds no
\* tableau and ends by raising a malformed-input error; it returns no
\* classification.
C19_NonFiniteRejected ==
    HasNonFinite =>
        /\ tableau = NoArray
        /\ pc \in {"start", "done"}
        /\ Done => result.kind = "Malformed input"

\* C20: newtonLocal makes at most maxiter iterations (k counts them: every
\* turn of the loop that does not raise updates x once); a call that returns
\* 'Maximum number of iterations reached' has made exactly maxiter.
C20_AtMostMaxiter ==
    newton.fct # "none" =>
        /\ newton.k <= newton.maxiter
        /\ newton.message = "Maximum number of iterations reached" =>
              newton.k = newton.maxiter

\* the iterator on the auxiliary problem is at a tableau on which the
\* selector reports OPTIMAL
PhaseOneOptimal == pc = "phase1" /\ NoNegativeReducedCost(phaseOneTableau)

\* the last entry of the last row of t
ObjectiveRHS(t) == LastRow(t)[t.ntab - 1]

\* C21, as stated: when Phase I ends OPTIMAL, simplex reports INFEASIBLE and
\* returns the terminal tableau exactly when the auxiliary objective value,
\* the negative of the last entry of the last row, is below -sqrt(eps);
\* otherwise it goes on to the removal of the auxiliary variables.
C21_InfeasibleWhenValueBelowZero ==
    [][PhaseOneOptimal =>
          IF LtMinusSqrtEps(objectiveValue(phaseOneTableau))
          THEN /\ pc' = "done"
               /\ result' = Returned(phaseOneTableau, FALSE, TRUE)
          ELSE pc' = "clean" /\ phaseOneTableau' = phaseOneTableau]_vars

\* C21, amended: when Phase I ends OPTIMAL, simplex reports INFEASIBLE and
\* returns the terminal tableau exactly when the last entry of the last row
\* is below -sqrt(eps), that is when the auxiliary objective value, its
\* negative, is above sqrt(eps); otherwise it goes on to the removal of the
\* auxiliary variables, on the same tableau.
C21_InfeasibleWhenValueAboveTolerance ==
    [][PhaseOneOptimal =>
          IF LtMinusSqrtEps(ObjectiveRHS(phaseOneTableau))
          THEN /\ pc' = "done"
               /\ result' = Returned(phaseOneTableau, FALSE, TRUE)
          ELSE /\ pc' = "clean" /\ phaseOneTableau' = phaseOneTableau
               /\ result' = Running]_vars

\* C21, the case of the amendment: INFEASIBLE has been returned with the
\* terminal tableau of Phase I, whose objective value is positive
C21_InfeasibleReturned ==
    /\ Ended
    /\ statusOf(result) = "INFEASIBLE"
    /\ result.tableau = phaseOneTableau
    /\ NoNegativeReducedCost(phaseOneTableau)
    /\ IsPos(objectiveValue(phaseOneTableau))
    /\ LtMinusSqrtEps(ObjectiveRHS(phaseOneTableau))

\* a turn of the clean-up loop that found a row to delete: an index is added
\* to rowsToRemove
RowFoundRedundant == pc = "clean" /\ Len(rowsToRemove') = Len(rowsToRemove) + 1

\* the clean-up loop ends and the Phase II starting tableau is made
CleanUpEnds == pc = "clean" /\ Len(rowsToRemove') = Len(rowsToRemove) /\ pc' # "clean"
               /\ call' = call

\* C22: each time the clean-up loop finds a redundant row, the tableau after
\* the turn is the tableau before it without that one row, which is not the
\* objective row (rows removed earlier are not removed again); and when the
\* loop ends with r rows found, the Phase II starting tableau has the
\* m0 - r remaining constraint rows and the objective row.
C22_ExactRowDeletion ==
    [][/\ RowFoundRedundant =>
              LET found == rowsToRemove'[Len(rowsToRemove')]
              IN  /\ found < phaseOneTableau.mtab - 1
                  /\ pc' = "clean"
                  /\ phaseOneTableau' = DeleteRows(phaseOneTableau, {found})
       /\ CleanUpEnds =>
              /\ phaseTwoTableau'.mtab = A0.mtab - Len(rowsToRemove) + 1
              /\ LastRow(phaseOneTableau') = LastRow(phaseOneTableau)]_vars

\* the columns of the auxiliary variables
AuxiliaryColumns == n..(n + A0.mtab - 1)

\* the clean-up loop is at the turn that finds nothing to clean
CleanUpOver ==
    pc = "clean" /\ \A k \in AuxiliaryColumns : basicRows[k] = None

\* C23: when the clean-up loop ends, getRow on the tableau reports no
\* auxiliary variable basic and agrees with basicRows, the list the loop
\* keeps up to date, on every column; and the loop has found an auxiliary
\* variable to remove at most once per auxiliary variable.
C23_AuxiliaryVariablesPurged ==
    /\ CleanUpOver =>
          /\ \A k \in AuxiliaryColumns : getRow(phaseOneTableau, k) = None
          /\ \A k \in 0..(n - 1) : getRow(phaseOneTableau, k) = basicRows[k]
    /\ turns <= A0.mtab

\* the Phase II starting tableau has been made and handed to the iterator,
\* which has not pivoted yet
AtStartOfPhaseTwo == pc = "phase2" /\ pivots = 0

\* the structural variables that getRow reports basic in row i of t
BasicIn(t, i) == {k \in 0..(t.ntab - 2) : getRow(t, k) = i}

\* C24: in the Phase II starting tableau every constraint row has exactly
\* one structural variable that getRow reports basic in it (so no two are
\* reported basic in the same row), and none is reported basic in the
\* objective row; the same holds of basicRows, the list line 322 builds with
\* getRow before the objective row is calculated.
C24_BasisIsMapping ==
    AtStartOfPhaseTwo =>
        /\ \A i \in 0..(phaseTwoTableau.mtab - 2) :
              /\ Cardinality(BasicIn(phaseTwoTableau, i)) = 1
              /\ Cardinality({k \in 0..(n - 1) : basicRows[k] = i}) = 1
        /\ BasicIn(phaseTwoTableau, phaseTwoTableau.mtab - 1) = {}
        /\ \A k \in 0..(n - 1) : basicRows[k] # phaseTwoTableau.mtab - 1

\* the ways of naming, for each constraint row of t, one structural variable
\* that basicRows reports basic in it
BasisMaps(t) ==
    {var \in [0..(t.mtab - 2) -> 0..(t.ntab - 2)] :
        \A i \in 0..(t.mtab - 2) : basicRows[var[i]] = i}

\* the sum over the constraint rows i of t of c[var[i]] * t[i][k]
BasicCostOf(t, var, k) ==
    SumTo([i \in 0..(t.mtab - 2) |-> RMul(c0[var[i]], t.a[i][k])], t.mtab - 1)

\* the last row of t is the row of the reduced costs of c for the basis var
IsObjectiveRowFor(t, var) ==
    /\ \A k \in 0..(t.ntab - 2) :
          LastRow(t)[k] = RSub(c0[k], BasicCostOf(t, var, k))
    /\ LastRow(t)[t.ntab - 1] = RNeg(BasicCostOf(t, var, t.ntab - 1))

\* C25: in the tableau handed to the Phase II iterator, with one variable
\* reported basic named for each constraint row, the objective entry of
\* every structural column k is c[k] minus the sum over the constraint rows
\* i of c[variable basic in row i] * tableau[i][k], and the last entry of the
\* objective row is the negative of the same sum on the right-hand sides,
\* each constraint row being counted once.
C25_PhaseTwoObjectiveRow ==
    AtStartOfPhaseTwo =>
        \E var \in BasisMaps(phaseTwoTableau) : IsObjectiveRowFor(phaseTwoTableau, var)

RECURSIVE IteratorReaches(_, _, _)
\* simplexAlgorithmTableau started on t is at the tableau target after at
\* least one and at most k pivots
IteratorReaches(t, target, k) ==
    IF k = 0 THEN FALSE
    ELSE LET sel == simplexTableau(t)
         IN  IF sel.raised \/ sel.opt \/ ~sel.bounded THEN FALSE
             ELSE LET r == pivoting(t, sel.p, sel.q)
                  IN  /\ ~r.raised
                      /\ \/ r.newtableau = target
                         \/ IteratorReaches(r.newtableau, target, k - 1)

\* C26: within one run of the iterator, in Phase I as in Phase II, no
\* tableau is visited twice (the iterator is a function of its tableau, so
\* that a tableau visited twice is visited for ever and simplex does not
\* terminate); checked over MaxPivots pivots from every tableau of the
\* iterator.
C26_NoTableauVisitedTwice ==
    /\ pc = "phase1" => ~IteratorReaches(phaseOneTableau, phaseOneTableau, MaxPivots)
    /\ pc = "phase2" => ~IteratorReaches(phaseTwoTableau, phaseTwoTableau, MaxPivots)

\* C27: on every tableau the iterator reaches on the auxiliary problem the
\* selector reports OPTIMAL or returns a pivot, never UNBOUNDED (so simplex
\* never returns UNBOUNDED from Phase I, and Phase I ends OPTIMAL when it
\* ends), and the objective value of the tableau, the sum of the auxiliary
\* variables, is >= 0.
C27_PhaseOneNeverUnbounded ==
    /\ pc = "phase1" =>
          /\ ~simplexTableau(phaseOneTableau).raised
          /\ simplexTableau(phaseOneTableau).bounded
          /\ ~IsNeg(objectiveValue(phaseOneTableau))
    /\ (Done /\ statusOf(result) = "UNBOUNDED") => phaseTwoTableau # NoArray

\* C27, the case: Phase I has ended OPTIMAL after two pivots or more and
\* simplex is at the removal of the auxiliary variables, a sum of the
\* right-hand sides that was positive having been brought to 0
C27_PhaseOneEndedOptimal ==
    /\ pc = "clean"
    /\ turns = 0
    /\ call.where = "phase1"
    /\ pivots >= 2
    /\ IsPos(objectiveValue(tableau))
    /\ objectiveValue(phaseOneTableau) = Zero
    /\ NoNegativeReducedCost(phaseOneTableau)

\* the right-hand side of every constraint row of t is >= 0
FeasibleTableau(t) ==
    \A i \in 0..(t.mtab - 2) : ~IsNeg(t.a[i][t.ntab - 1])

\* the last call of pivoting was made by the iterator, on the tableau
\* call.arg, and returned call.newtableau
IteratorPivoted ==
    /\ call.where \in {"phase1", "phase2"}
    /\ ~call.raised

\* the minimum ratio of the last pivot of the iterator
MinimumRatio == Steps(call.arg, call.p)[call.q]

\* C28: a pivot of the iterator on a feasible tableau (no negative
\* right-hand side in a constraint row) does not increase the objective
\* value, the negative of the last entry of the last row, and decreases it
\* when the minimum ratio of the pivot is positive.
C28_MonotoneObjective ==
    (IteratorPivoted /\ FeasibleTableau(call.arg)) =>
        /\ RLe(objectiveValue(call.newtableau), objectiveValue(call.arg))
        /\ IsPos(MinimumRatio) =>
              RLt(objectiveValue(call.newtableau), objectiveValue(call.arg))

\* C28, the case: in Phase II the iterator has pivoted on a feasible tableau
\* with a positive minimum ratio, after a pivot of Phase I, and the
\* objective value has decreased
C28_ObjectiveDecreased ==
    /\ IteratorPivoted
    /\ call.where = "phase2"
    /\ FeasibleTableau(call.arg)
    /\ IsPos(MinimumRatio)
    /\ RLt(objectiveValue(call.newtableau), objectiveValue(call.arg))
    /\ phaseTwoTableau = call.newtableau

\* two values returned by simplex give the same answer: the same status
\* and, when a tableau is returned, the same objective value and solution
SameAnswer(r1, r2) ==
    /\ statusOf(r1) = statusOf(r2)
    /\ (r1.kind = "returned" /\ r2.kind = "returned") =>
          /\ objectiveValue(r1.tableau) = objectiveValue(r2.tableau)
          /\ solution(r1.tableau) = solution(r2.tableau)

\* C29: the status, the objective value and the solution that simplex
\* returns are those of every run of simplex on the same A, b, c, whichever
\* auxiliary variable each turn of the clean-up loop takes from the set
\* tobeCleaned.
C29_CleanUpOrderIndependent ==
    Done => \A o \in Runs(A0, b0, c0) : SameAnswer(o, result)

\* the basis list of the problem (P, q) is feasible: as many columns as
\* rows, independent, and a basic solution B^-1 q >= 0
FeasibleBasis(P, q, list) ==
    LET B == [i \in 0..(P.mtab - 1) |->
                 [t \in 0..(Len0(list) - 1) |-> P.a[i][list[t]]]]
        solved == linalgSolve(B, q, P.mtab, Len0(list))
    IN  /\ Len0(list) = P.mtab
        /\ Len0(q) = P.mtab
        /\ solved.ok
        /\ \A i \in 0..(P.mtab - 1) : ~IsNeg(solved.x[i])

\* the tableau of (P, q, cost) in canonical form for the basis list: row i
\* is row i of B^-1 [P | q], so that column list[i] is the unit vector of
\* row i, and the last row holds the reduced costs and the negative of the
\* cost of the basic solution
CanonicalTableau(P, q, cost, list) ==
    LET nr == P.mtab
        nc == P.ntab
        B == [i \in 0..(nr - 1) |-> [t \in 0..(nr - 1) |-> P.a[i][list[t]]]]
        cols == [j \in 0..nc |->
                    linalgSolve(B, [i \in 0..(nr - 1) |->
                                       IF j < nc THEN P.a[i][j] ELSE q[i]],
                                nr, nr).x]
        basicCost(j) ==
            SumTo([i \in 0..(nr - 1) |-> RMul(cost[list[i]], cols[j][i])], nr)
    IN  Array2D(nr + 1, nc + 1,
                [i \in 0..nr |->
                    [j \in 0..nc |->
                        IF i < nr THEN cols[j][i]
                        ELSE IF j < nc THEN RSub(cost[j], basicCost(j))
                        ELSE RNeg(basicCost(nc))]])

\* the tableau t is in canonical form for the basis list with the basic
\* values xb and the objective value cost
HoldsBasis(t, list, xb, cost) ==
    /\ \A i \in 0..(t.mtab - 2) :
          /\ t.a[i][t.ntab - 1] = xb[i]
          /\ \A r \in 0..(t.mtab - 1) :
                t.a[r][list[i]] = IF r = i THEN One ELSE Zero
    /\ objectiveValue(t) = cost

RECURSIVE IteratorAgrees(_, _)
\* simplexAlgorithmTableau on the tableau t does what the iterations j,
\* j + 1, ... recorded by simplex(A, b, c, basis) did: same basis, basic
\* values and objective value, same entering variable and leaving row,
\* same stop
IteratorAgrees(t, j) ==
    IF j > Len(iters) THEN TRUE
    ELSE LET it == iters[j]
             sel == simplexTableau(t)
         IN  /\ ~sel.raised
             /\ HoldsBasis(t, it.basis, it.xb, it.cost)
             /\ IF it.p = None THEN sel.opt
                ELSE IF it.step = Inf THEN ~sel.opt /\ ~sel.bounded
                ELSE /\ sel.p = it.p
                     /\ sel.q = it.q
                     /\ LET r == pivoting(t, sel.p, sel.q)
                        IN  ~r.raised /\ IteratorAgrees(r.newtableau, j + 1)

RECURSIVE IteratorResult(_, _)
\* the status and objective value with which simplexAlgorithmTableau
\* started on t stops within k pivots
IteratorResult(t, k) ==
    LET sel == simplexTableau(t)
    IN  IF sel.raised THEN <<"ValueError", Zero>>
        ELSE IF sel.opt THEN <<"OPTIMAL", objectiveValue(t)>>
        ELSE IF ~sel.bounded THEN <<"UNBOUNDED", objectiveValue(t)>>
        ELSE IF k = 0 THEN <<"running", Zero>>
        ELSE LET r == pivoting(t, sel.p, sel.q)
             IN  IF r.raised THEN <<"The pivot is too close to zero", Zero>>
                 ELSE IteratorResult(r.newtableau, k - 1)

\* a run of simplex(A, b, c, basis) that was given a feasible basis
FromFeasibleBasis ==
    /\ pc \in {"basis", "done"}
    /\ Len(iters) > 0
    /\ FeasibleBasis(A0, b0, basis0)

\* C30: from a feasible basis, simplexAlgorithmTableau started on the
\* tableau in canonical form for that basis takes at every iteration the
\* entering variable and the leaving row that simplex(A, b, c, basis) takes,
\* its tableau holds the same basis, basic values and objective value, and
\* it stops with the same status (optimal or unbounded) and objective value.
C30_TableauIteratorAgreesWithBasisSimplex ==
    FromFeasibleBasis =>
        LET t == CanonicalTableau(A0, b0, c0, basis0)
        IN  /\ IteratorAgrees(t, 1)
            /\ (Done /\ result.kind = "returned") =>
                  IteratorResult(t, MaxPivots)
                      = <<statusOf(result), iters[Len(iters)].cost>>

\* C30, the case: simplex(A, b, c, basis) has stopped optimal from a
\* feasible basis of a problem of two rows after two changes of basis that
\* lowered the cost, the second one in the row the first one left alone
C30_StoppedOptimalAfterPivots ==
    /\ FromFeasibleBasis
    /\ Done
    /\ statusOf(result) = "OPTIMAL"
    /\ A0.mtab = 2
    /\ Len(iters) = 3
    /\ iters[1].q # iters[2].q
    /\ RLt(iters[2].cost, iters[1].cost)
    /\ RLt(iters[3].cost, iters[2].cost)

=============================================================================
